---- MODULE Spec2Model ----
(***************************************************************************)
(* Model of the structured logger of logger.go: the package configuration  *)
(* (logLevel, service, version), the Log objects with their payload and    *)
(* writer, and the writers that receive the marshalled entries.  Spec is   *)
(* logger.go called from one goroutine, SpecConc logger.go called from two,*)
(* SpecMain the variant of main.go and SpecSet that of unnamed/part_001.   *)
(*                                                                         *)
(* Go values are modelled as follows.  A string is a TLA+ string, except a *)
(* message, which is a sequence of text pieces so that fmt.Sprintf has     *)
(* something to do.  A pointer is a sequence of length 0 (nil) or 1.  A    *)
(* map[string]string is a function whose domain is a set of keys.  A       *)
(* writer is the sequence of chunks written to it; a chunk is either a     *)
(* piece of text or one marshalled JSON object.                            *)
(***************************************************************************)
EXTENDS Integers, Sequences, FiniteSets, TLC

VARIABLES
    env,        \* the process environment read by init()
    logLevel,   \* package variable logLevel
    service,    \* package variable service
    version,    \* package variable version
    logs,       \* the Log objects allocated by New, in allocation order
    sink,       \* content of every writer
    lastOp,     \* history: the last call made, its receiver and arguments
    withLog,    \* history: the With calls made so far
    acc,        \* history: per Log, the merge of all the field maps given to With
    lastArg,    \* history: the call site or the writer of the last call
    panicked,   \* the process was aborted by a panic
    gor,        \* per goroutine, the call it is in the middle of
    steps,      \* history: number of calls made
    passed      \* history: number of emit calls at or above the threshold

vars == <<env, logLevel, service, version, logs, sink, lastOp, withLog, acc,
          lastArg, panicked, gor, steps, passed>>

----------------------------------------------------------------------------
(* Bounds of the model *)

\* the number of calls a behaviour makes
MaxSteps == 4

Keys == {"a", "b"}
Vals == {"1", "2"}
KeyOrder == <<"a", "b">>

PlainMessages == {<<"msg">>}
Formats == {<<"msg ", "%s">>}
ArgLists == {<<"p">>}
Times == {"2017-04-26T02:29:33-04:00"}
Stacks == {"goroutine 1 [running]:"}
\* the places in the client's code that call Error or Errorf
CallSites == {[file |-> "app.go", line |-> 15, fn |-> "main.main"],
              [file |-> "app.go", line |-> 42, fn |-> "main.handle"]}
\* the environments the process is started in
Env(level, svc, ver) == [LOG_LEVEL |-> level, SERVICE |-> svc, VERSION |-> ver]
Envs == {Env("DEBUG", "svc", "1.0"), Env("INFO", "svc", "1.0"),
         Env("WARN", "svc", "1.0"), Env("ERROR", "svc", ""),
         Env("", "svc", "1.0"), Env("TRACE", "", "")}
Writers == {"stdout", "buf"}

\* every map[string]string over Keys and Vals
FieldMaps == UNION {[D -> Vals] : D \in SUBSET Keys}

\* the field maps given to With
FieldInputs ==
    {f \in FieldMaps : \/ DOMAIN f = {}
                       \/ f = [a |-> "1"]
                       \/ f = [a |-> "2", b |-> "2"]
                       \/ f = [b |-> "1"]}

----------------------------------------------------------------------------
(* severity, logLevelName, logLevelValue *)

debug == 0
info == 1
warn == 2
error == 3

logLevelName == <<"DEBUG", "INFO", "WARN", "ERROR">>

\* severity.String()
String(s) == logLevelName[s + 1]

\* the map logLevelValue: <<value, ok>> for a lookup
logLevelValue(name) ==
    IF name = "DEBUG" THEN <<debug, TRUE>>
    ELSE IF name = "INFO" THEN <<info, TRUE>>
    ELSE IF name = "WARN" THEN <<warn, TRUE>>
    ELSE IF name = "ERROR" THEN <<error, TRUE>>
    ELSE <<0, FALSE>>

----------------------------------------------------------------------------
(* Writers *)

TextChunk(s) == [text |-> s, json |-> <<>>]
JsonChunk(obj) == [text |-> "", json |-> <<obj>>]
Newline == TextChunk("\n")

\* fmt.Fprintln(w, x): the operand followed by a newline
Fprintln(snk, w, chunk) == [snk EXCEPT ![w] = @ \o <<chunk, Newline>>]

\* fmt.Println(x) writes to os.Stdout
Println(snk, s) == Fprintln(snk, "stdout", TextChunk(s))

EmptySink == [w \in Writers |-> <<>>]

----------------------------------------------------------------------------
(* fmt.Sprintf, for the verb %s only *)

RECURSIVE Sprintf(_, _)
Sprintf(format, args) ==
    IF format = <<>>
    THEN IF args = <<>> THEN <<>> ELSE <<"%!(EXTRA string=" \o Head(args) \o ")">>
    ELSE IF Head(format) = "%s"
         THEN IF args = <<>>
              THEN <<"%!s(MISSING)">> \o Sprintf(Tail(format), args)
              ELSE <<Head(args)>> \o Sprintf(Tail(format), Tail(args))
         ELSE <<Head(format)>> \o Sprintf(Tail(format), args)

----------------------------------------------------------------------------
(* The types ServiceContext, ReportLocation, Context, Payload and Log *)

EmptyFields == [k \in {} |-> "1"]

ServiceContext(svc, ver) == [Service |-> svc, Version |-> ver]

ReportLocation(file, fn, line) ==
    [FilePath |-> file, FunctionName |-> fn, LineNumber |-> line]

\* Data is a map, ReportLocation a pointer
Context(data, rl) == [Data |-> data, ReportLocation |-> rl]

\* ServiceContext and Context are pointers
Payload(sev, time, msg, sc, ctx, stack) ==
    [Severity |-> sev, EventTime |-> time, Caller |-> "", Message |-> msg,
     ServiceContext |-> sc, Context |-> ctx, Stacktrace |-> stack]

Log(p, w) == [payload |-> p, writer |-> w]

\* the field map a Log holds: the Data of its payload's Context, if any
DataOf(lg) ==
    IF lg.payload.Context = <<>> THEN EmptyFields
    ELSE lg.payload.Context[1].Data

CtxData(l) == DataOf(logs[l])

----------------------------------------------------------------------------
(* encoding/json: Marshal of a Payload, with the omitempty rules of the     *)
(* struct tags.  A JSON object is a record that has exactly the keys that  *)
(* are written; a JSON object made from a map is the sequence of its       *)
(* <<key, value>> pairs in the order Marshal writes them (sorted by key).  *)

Opt(cond, rec) == IF cond THEN rec ELSE <<>>

SortedKeys(m) == SelectSeq(KeyOrder, LAMBDA k : k \in DOMAIN m)

\* MarshalMap, if the keys were written from the last to the first
MarshalMap_Reversed(m) ==
    [i \in 1..Len(SortedKeys(m)) |->
        <<SortedKeys(m)[Len(SortedKeys(m)) + 1 - i],
          m[SortedKeys(m)[Len(SortedKeys(m)) + 1 - i]]>>]

\* encoding/json writes a map with its keys sorted
MarshalMap(m) ==
    [i \in 1..Len(SortedKeys(m)) |-> <<SortedKeys(m)[i], m[SortedKeys(m)[i]]>>]

MarshalServiceContext(sc) ==
    Opt(sc.Service # "", [service |-> sc.Service])
    @@ Opt(sc.Version # "", [version |-> sc.Version])

MarshalReportLocation(rl) ==
    [filePath |-> rl.FilePath, functionName |-> rl.FunctionName,
     lineNumber |-> rl.LineNumber]

\* MarshalContext, if the data tag had no omitempty
MarshalContext_NoOmitEmpty(c) ==
    [data |-> MarshalMap(c.Data)]
    @@ Opt(c.ReportLocation # <<>>,
           [reportLocation |-> MarshalReportLocation(c.ReportLocation[1])])

MarshalContext(c) ==
    Opt(DOMAIN c.Data # {}, [data |-> MarshalMap(c.Data)])
    @@ Opt(c.ReportLocation # <<>>,
           [reportLocation |-> MarshalReportLocation(c.ReportLocation[1])])

Marshal(p) ==
    [severity |-> p.Severity, eventTime |-> p.EventTime, message |-> p.Message]
    @@ Opt(p.Caller # "", [caller |-> p.Caller])
    @@ Opt(p.ServiceContext # <<>>,
           [serviceContext |-> MarshalServiceContext(p.ServiceContext[1])])
    @@ Opt(p.Context # <<>>, [context |-> MarshalContext(p.Context[1])])
    @@ Opt(p.Stacktrace # "", [stacktrace |-> p.Stacktrace])

----------------------------------------------------------------------------
(* The operations of logger.go.  An operation takes the world it runs in   *)
(* (the Log objects and the writers) and gives the world it leaves.        *)

World(lg, snk) == [logs |-> lg, sink |-> snk]

\* func init(): the diagnostics printed and the configuration chosen
\* init() leaving the threshold at the zero value of int when LOG_LEVEL is
\* not a level name
initLevel_DefaultZero(e) ==
    IF logLevelValue(e.LOG_LEVEL)[2]
    THEN logLevelValue(e.LOG_LEVEL)[1]
    ELSE 0

initLevel(e) ==
    IF logLevelValue(e.LOG_LEVEL)[2]
    THEN logLevelValue(e.LOG_LEVEL)[1]
    ELSE logLevelValue(String(info))[1]

initSink(e) ==
    LET s1 == IF logLevelValue(e.LOG_LEVEL)[2] THEN EmptySink
              ELSE Println(EmptySink,
                     "logger warn: LOG_LEVEL is not valid or not set, defaulting to INFO")
    IN  IF e.SERVICE = "" \/ e.VERSION = ""
        THEN Println(s1, "logger error: cannot instantiate the logger, make sure the SERVICE and VERSION environment vars are set correctly")
        ELSE s1

\* func New() *Log
NewLog == Log(Payload("", "", <<>>, <<ServiceContext(service, version)>>, <<>>, ""),
              "stdout")

\* func (l *Log) SetWriter(w io.Writer) *Log
SetWriterOp(w, l, wr) == World([w.logs EXCEPT ![l].writer = wr], w.sink)

\* set, if it kept the value of a key that is already there
set_KeepFirst(lg, l, key, val) ==
    LET ctx == IF lg[l].payload.Context = <<>>
               THEN Context(EmptyFields, <<>>)
               ELSE lg[l].payload.Context[1]
        data == [k \in DOMAIN ctx.Data \cup {key} |->
                    IF k \in DOMAIN ctx.Data THEN ctx.Data[k] ELSE val]
    IN  [lg EXCEPT ![l].payload.Context = <<[ctx EXCEPT !.Data = data]>>]

\* func (l *Log) set(key, val string)
set(lg, l, key, val) ==
    LET ctx == IF lg[l].payload.Context = <<>>
               THEN Context(EmptyFields, <<>>)
               ELSE lg[l].payload.Context[1]
        data == [k \in DOMAIN ctx.Data \cup {key} |->
                    IF k = key THEN val ELSE ctx.Data[k]]
    IN  [lg EXCEPT ![l].payload.Context = <<[ctx EXCEPT !.Data = data]>>]

\* func (l *Log) With(fields Fields) *Log: the loop over fields
RECURSIVE WithLoop(_, _, _, _)
WithLoop(lg, l, fields, todo) ==
    IF todo = {} THEN lg
    ELSE LET k == CHOOSE x \in todo : TRUE
         IN  WithLoop(set(lg, l, k, fields[k]), l, fields, todo \ {k})

\* With, if the Log it returns held the given fields only
WithOp_OneTime(w, l, fields) ==
    [world |-> World([w.logs EXCEPT ![l].payload.Context = <<Context(fields, <<>>)>>],
                     w.sink),
     ret |-> l]

\* With returns its receiver
WithOp(w, l, fields) ==
    [world |-> World(WithLoop(w.logs, l, fields, DOMAIN fields), w.sink),
     ret |-> l]

\* log, if it wrote to the standard output whatever writer is set
log_ToStdout(w, l, severity, message, now) ==
    LET old == w.logs[l].payload
        p == Payload(severity, now, message, old.ServiceContext, old.Context,
                     old.Stacktrace)
    IN  World([w.logs EXCEPT ![l].payload = p],
              Fprintln(w.sink, "stdout", JsonChunk(Marshal(p))))

\* log, if it made a new service context for every entry
log_FreshServiceContext(w, l, severity, message, now) ==
    LET old == w.logs[l].payload
        p == Payload(severity, now, message, <<ServiceContext("", "")>>,
                     old.Context, old.Stacktrace)
    IN  World([w.logs EXCEPT ![l].payload = p],
              Fprintln(w.sink, w.logs[l].writer, JsonChunk(Marshal(p))))

\* log, if it unset the context after the write
log_UnsetContext(w, l, severity, message, now) ==
    LET old == w.logs[l].payload
        p == Payload(severity, now, message, old.ServiceContext, old.Context,
                     old.Stacktrace)
    IN  World([w.logs EXCEPT ![l].payload = [p EXCEPT !.Context = <<>>]],
              Fprintln(w.sink, w.logs[l].writer, JsonChunk(Marshal(p))))

\* func (l *Log) log(severity, message string)
log(w, l, severity, message, now) ==
    LET old == w.logs[l].payload
        p == Payload(severity, now, message, old.ServiceContext, old.Context,
                     old.Stacktrace)
    IN  World([w.logs EXCEPT ![l].payload = p],
              Fprintln(w.sink, w.logs[l].writer, JsonChunk(Marshal(p))))

\* isValidLogLevel, with the comparison turned around
isValidLogLevel_Reversed(s) == s <= logLevel

\* isValidLogLevel, with a strict comparison
isValidLogLevel_Strict(s) == s > logLevel

\* func isValidLogLevel(s severity) bool
isValidLogLevel(s) == s >= logLevel

\* func (l *Log) Debug(message string)
DebugOp(w, l, message, now) ==
    IF ~isValidLogLevel(debug) THEN w
    ELSE log(w, l, logLevelName[debug + 1], message, now)

\* func (l *Log) Debugf(message string, args ...interface{})
DebugfOp(w, l, format, args, now) == DebugOp(w, l, Sprintf(format, args), now)

\* func (l *Log) Metric(message string)
MetricOp(w, l, message, now) ==
    IF ~isValidLogLevel(info) THEN w
    ELSE log(w, l, logLevelName[info + 1], message, now)

\* func (l *Log) Info(message string)
InfoOp(w, l, message, now) ==
    IF ~isValidLogLevel(info) THEN w
    ELSE log(w, l, logLevelName[info + 1], message, now)

\* func (l *Log) Infof(message string, args ...interface{})
InfofOp(w, l, format, args, now) == InfoOp(w, l, Sprintf(format, args), now)

\* Warn, if it stored the severity and the time in the Log before the check
WarnOp_StampFirst(w, l, message, now) ==
    IF ~isValidLogLevel(warn)
    THEN World([w.logs EXCEPT ![l].payload.Severity = logLevelName[warn + 1],
                              ![l].payload.EventTime = now],
               w.sink)
    ELSE log(w, l, logLevelName[warn + 1], message, now)

\* func (l *Log) Warn(message string)
WarnOp(w, l, message, now) ==
    IF ~isValidLogLevel(warn) THEN w
    ELSE log(w, l, logLevelName[warn + 1], message, now)

\* func (l *Log) Warnf(message string, args ...interface{})
WarnfOp(w, l, format, args, now) == WarnOp(w, l, Sprintf(format, args), now)

\* ErrorPayload, if it set no report location
ErrorPayload_NoLocation(old, stack, caller) ==
    LET ctx == IF old.Context = <<>> THEN Context(EmptyFields, <<>>)
               ELSE old.Context[1]
    IN  Payload("", "", <<>>, old.ServiceContext, <<Context(ctx.Data, <<>>)>>, stack)

\* ErrorPayload, if the new context had the report location only
ErrorPayload_DropData(old, stack, caller) ==
    Payload("", "", <<>>, old.ServiceContext,
            <<Context(EmptyFields,
                      <<ReportLocation(caller.file, "unknown", caller.line)>>)>>,
            stack)

\* the payload Error stores before it calls log: the service context and the
\* context data are kept, the report location and the stack trace are set.
\* stack is the text runtime.Stack wrote, caller the frame runtime.Caller(1)
\* names.
ErrorPayload(old, stack, caller) ==
    LET ctx == IF old.Context = <<>> THEN Context(EmptyFields, <<>>)
               ELSE old.Context[1]
    IN  Payload("", "", <<>>, old.ServiceContext,
                <<Context(ctx.Data,
                          <<ReportLocation(caller.file, "unknown", caller.line)>>)>>,
                stack)

\* func (l *Log) Error(message string)
ErrorOp(w, l, message, now, stack, caller) ==
    log(World([w.logs EXCEPT ![l].payload = ErrorPayload(@, stack, caller)], w.sink),
        l, logLevelName[error + 1], message, now)

\* the frame of Errorf itself, which is what runtime.Caller(1) names when
\* Error is called from Errorf
ErrorfFrame == [file |-> "logger.go", line |-> 288, fn |-> "logger.(*Log).Errorf"]

\* func (l *Log) Errorf(message string, args ...interface{})
ErrorfOp(w, l, format, args, now, stack) ==
    ErrorOp(w, l, Sprintf(format, args), now, stack, ErrorfFrame)

----------------------------------------------------------------------------
(* History of the calls *)

NoFields == EmptyFields

Call(op, l, sev, msg) == [op |-> op, l |-> l, sev |-> sev, msg |-> msg]

NoFrame == [file |-> "", line |-> 0, fn |-> ""]
Arg(site, wr) == [site |-> site, writer |-> wr]
NoArg == Arg(NoFrame, "")

\* every call counts as a step
Step == steps < MaxSteps /\ steps' = steps + 1

\* merge of two field maps, the second taking precedence
Merge(f, g) ==
    [k \in DOMAIN f \cup DOMAIN g |-> IF k \in DOMAIN g THEN g[k] ELSE f[k]]

EmitOps == {"Debug", "Debugf", "Metric", "Info", "Infof", "Warn", "Warnf",
            "Error", "Errorf"}

LogIds == 1..Len(logs)

\* the goroutines of the client that use the logger at the same time
Goroutines == {1, 2}

\* a goroutine that is in no call; h is the Log it holds
Idle(h) ==
    [pc |-> "idle", h |-> h, op |-> "", sev |-> -1, msg |-> <<>>,
     fields |-> EmptyFields, todo |-> {}, calls |-> 0]

\* a client that calls the logger from one goroutine only has no call in the
\* middle between two calls
NoCalls == [g \in Goroutines |-> Idle(0)]

----------------------------------------------------------------------------
(* The state machine *)

Init ==
    /\ env \in Envs
    /\ logLevel = initLevel(env)
    /\ service = env.SERVICE
    /\ version = env.VERSION
    /\ logs = <<>>
    /\ sink = initSink(env)
    /\ lastOp = Call("init", 0, -1, <<>>)
    /\ withLog = <<>>
    /\ acc = <<>>
    /\ lastArg = NoArg
    /\ panicked = FALSE
    /\ gor = NoCalls
    /\ steps = 0
    /\ passed = 0

Config == <<env, logLevel, service, version>>

New ==
    /\ Step
    /\ logs' = Append(logs, NewLog)
    /\ acc' = Append(acc, NoFields)
    /\ lastOp' = Call("New", Len(logs) + 1, -1, <<>>)
    /\ lastArg' = NoArg
    /\ UNCHANGED <<Config, gor, panicked, sink, withLog, passed>>

SetWriter ==
    \E l \in LogIds, wr \in Writers :
        /\ Step
        /\ logs' = SetWriterOp(World(logs, sink), l, wr).logs
        /\ sink' = SetWriterOp(World(logs, sink), l, wr).sink
        /\ lastOp' = Call("SetWriter", l, -1, <<>>)
        /\ lastArg' = Arg(NoFrame, wr)
        /\ UNCHANGED <<Config, gor, panicked, withLog, acc, passed>>

With ==
    \E l \in LogIds, fields \in FieldInputs :
        /\ Step
        /\ logs' = WithOp(World(logs, sink), l, fields).world.logs
        /\ sink' = WithOp(World(logs, sink), l, fields).world.sink
        /\ lastOp' = Call("With", l, -1, <<>>)
        /\ lastArg' = NoArg
        /\ withLog' = Append(withLog,
                        [parent |-> l, fields |-> fields, before |-> CtxData(l),
                         step |-> steps + 1,
                         result |-> WithOp(World(logs, sink), l, fields).ret])
        /\ acc' = [acc EXCEPT ![l] = Merge(@, fields)]
        /\ UNCHANGED <<Config, gor, panicked, passed>>

\* what every emit call does around the operation itself
Emit(op, l, sev, msg, w, site) ==
    /\ Step
    /\ logs' = w.logs
    /\ sink' = w.sink
    /\ lastOp' = Call(op, l, sev, msg)
    /\ lastArg' = Arg(site, "")
    /\ passed' = IF sev >= logLevel THEN passed + 1 ELSE passed
    /\ UNCHANGED <<Config, gor, panicked, withLog, acc>>

Debug ==
    \E l \in LogIds, m \in PlainMessages, now \in Times :
        Emit("Debug", l, debug, m, DebugOp(World(logs, sink), l, m, now), NoFrame)

Debugf ==
    \E l \in LogIds, f \in Formats, a \in ArgLists, now \in Times :
        Emit("Debugf", l, debug, Sprintf(f, a),
             DebugfOp(World(logs, sink), l, f, a, now), NoFrame)

Metric ==
    \E l \in LogIds, m \in PlainMessages, now \in Times :
        Emit("Metric", l, info, m, MetricOp(World(logs, sink), l, m, now), NoFrame)

Info ==
    \E l \in LogIds, m \in PlainMessages, now \in Times :
        Emit("Info", l, info, m, InfoOp(World(logs, sink), l, m, now), NoFrame)

Infof ==
    \E l \in LogIds, f \in Formats, a \in ArgLists, now \in Times :
        Emit("Infof", l, info, Sprintf(f, a),
             InfofOp(World(logs, sink), l, f, a, now), NoFrame)

Warn ==
    \E l \in LogIds, m \in PlainMessages, now \in Times :
        Emit("Warn", l, warn, m, WarnOp(World(logs, sink), l, m, now), NoFrame)

Warnf ==
    \E l \in LogIds, f \in Formats, a \in ArgLists, now \in Times :
        Emit("Warnf", l, warn, Sprintf(f, a),
             WarnfOp(World(logs, sink), l, f, a, now), NoFrame)

Error ==
    \E l \in LogIds, m \in PlainMessages, now \in Times, st \in Stacks,
       site \in CallSites :
        Emit("Error", l, error, m, ErrorOp(World(logs, sink), l, m, now, st, site),
             site)

Errorf ==
    \E l \in LogIds, f \in Formats, a \in ArgLists, now \in Times, st \in Stacks,
       site \in CallSites :
        Emit("Errorf", l, error, Sprintf(f, a),
             ErrorfOp(World(logs, sink), l, f, a, now, st), site)

Next ==
    \/ New
    \/ SetWriter
    \/ With
    \/ Debug
    \/ Debugf
    \/ Metric
    \/ Info
    \/ Infof
    \/ Warn
    \/ Warnf
    \/ Error
    \/ Errorf

Spec == Init /\ [][Next]_vars

----------------------------------------------------------------------------
(* Reading the writers *)

\* what the writer of Log l holds
OutOf(l) == sink[logs[l].writer]

\* the last call was an emit call at or above the threshold
Emitted == lastOp.op \in EmitOps /\ lastOp.sev >= logLevel

\* the writer of the last call's receiver ends with a JSON object and a newline
HasEntry ==
    /\ lastOp.op \in EmitOps
    /\ Len(OutOf(lastOp.l)) >= 2
    /\ OutOf(lastOp.l)[Len(OutOf(lastOp.l))] = Newline
    /\ OutOf(lastOp.l)[Len(OutOf(lastOp.l)) - 1].json # <<>>

\* that JSON object
LastEntry == OutOf(lastOp.l)[Len(OutOf(lastOp.l)) - 1].json[1]

HasContext(e) == "context" \in DOMAIN e
HasData(e) == HasContext(e) /\ "data" \in DOMAIN e.context
HasReportLocation(e) == HasContext(e) /\ "reportLocation" \in DOMAIN e.context
HasStacktrace(e) == "stacktrace" \in DOMAIN e

\* context.data of an entry, read back as a field map
EntryFields(e) ==
    IF HasData(e)
    THEN [k \in {e.context.data[i][1] : i \in DOMAIN e.context.data} |->
             e.context.data[CHOOSE i \in DOMAIN e.context.data :
                                e.context.data[i][1] = k][2]]
    ELSE EmptyFields

NewlinesIn(w) == Cardinality({i \in DOMAIN sink[w] : sink[w][i] = Newline})
ObjectsIn(w) == Cardinality({i \in DOMAIN sink[w] : sink[w][i].json # <<>>})

\* the lines init() printed before any Log existed
DiagnosticLines ==
    Cardinality({i \in DOMAIN initSink(env)["stdout"] :
                    initSink(env)["stdout"][i] = Newline})

NonErrorOps == {"Debug", "Debugf", "Metric", "Info", "Infof", "Warn", "Warnf"}
ErrorOps == {"Error", "Errorf"}

----------------------------------------------------------------------------
(* The claims *)

\* C1: With does not mutate its receiver: the context data of the Log that
\* With is called on is the same after the call as before it.
C1_WithKeepsReceiver ==
    [][lastOp'.op = "With" =>
          DataOf(logs'[lastOp'.l]) = DataOf(logs[lastOp'.l])]_vars

\* C2: context branches are independent: when X = P.With(A) and Y = P.With(B),
\* an entry emitted through X has no key that only B has (a key of B that is
\* neither in A nor in the context P had before the two calls).
C2_BranchesIndependent ==
    \A i, j \in DOMAIN withLog :
        (/\ i # j
         /\ withLog[i].parent = withLog[j].parent
         /\ Emitted /\ HasEntry
         /\ lastOp.l = withLog[i].result)
        => \A k \in DOMAIN withLog[j].fields :
              (/\ k \notin DOMAIN withLog[i].fields
               /\ k \notin DOMAIN withLog[IF i < j THEN i ELSE j].before)
              => k \notin DOMAIN EntryFields(LastEntry)

\* the two last With calls are the chain L.With(F1).With(F2)
Chained ==
    /\ lastOp.op = "With"
    /\ Len(withLog) >= 2
    /\ withLog[Len(withLog)].parent = withLog[Len(withLog) - 1].result
    /\ withLog[Len(withLog)].step = withLog[Len(withLog) - 1].step + 1

C4_BelowThresholdWritesNothing ==
    [][(lastOp'.op \in EmitOps /\ lastOp'.sev < logLevel) => sink' = sink]_vars

\* C4 witness: a Warn call under the threshold ERROR has been made
C4_Witness ==
    /\ lastOp.op \in {"Warn", "Warnf"}
    /\ logLevel = error
    /\ lastOp.sev < logLevel

C6_NoLocationBelowError ==
    (Emitted /\ HasEntry /\ lastOp.op \in NonErrorOps)
    => (~HasReportLocation(LastEntry) /\ ~HasStacktrace(LastEntry))

\* C7: an entry emitted by Error or Errorf has a non-empty stacktrace and a
\* context.reportLocation; when no field was ever given to the Log, the
\* context object has the reportLocation key only.
C7_ErrorHasLocationAndStack ==
    lastOp.op \in ErrorOps =>
        /\ HasEntry
        /\ HasStacktrace(LastEntry)
        /\ LastEntry.stacktrace # ""
        /\ HasReportLocation(LastEntry)
        /\ (DOMAIN acc[lastOp.l] = {} =>
               DOMAIN LastEntry.context = {"reportLocation"})

\* C7 witness: Error on a Log that was given no field
C7_Witness ==
    /\ lastOp.op \in ErrorOps
    /\ DOMAIN acc[lastOp.l] = {}
    /\ HasEntry

\* C8: the context.data of an Error or Errorf entry is the field map the With
\* calls on that Log accumulated, and reportLocation stands next to it.
C8_ErrorCarriesContext ==
    lastOp.op \in ErrorOps =>
        /\ HasEntry
        /\ EntryFields(LastEntry) = acc[lastOp.l]
        /\ HasReportLocation(LastEntry)

\* C8 witness: Error on a Log that two keys were given to
C8_Witness ==
    /\ lastOp.op \in ErrorOps
    /\ HasEntry
    /\ DOMAIN acc[lastOp.l] = {"a", "b"}

\* C9: an entry has a context.data key exactly when the field map of the Log
\* is non-empty when it is emitted, and an entry with neither data nor report
\* location has no context key.
C9_DataKeyIffFields ==
    (Emitted /\ HasEntry) =>
        /\ HasData(LastEntry) <=> (DOMAIN CtxData(lastOp.l) # {})
        /\ HasContext(LastEntry) =>
               (HasData(LastEntry) \/ HasReportLocation(LastEntry))

\* C9 witness: an Error entry of a Log without fields, whose context has no
\* data key
C9_Witness ==
    /\ Emitted /\ HasEntry
    /\ lastOp.op = "Error"
    /\ DOMAIN CtxData(lastOp.l) = {}
    /\ HasContext(LastEntry) /\ ~HasData(LastEntry)

\* C10: the fields given to With persist: every entry emitted later through
\* that Log, whatever its severity and whatever was emitted before, has all
\* the fields accumulated by the With calls in context.data.
C10_FieldsPersist ==
    Emitted =>
        /\ HasEntry
        /\ \A k \in DOMAIN acc[lastOp.l] :
              /\ k \in DOMAIN EntryFields(LastEntry)
              /\ EntryFields(LastEntry)[k] = acc[lastOp.l][k]

\* C10 witness: an entry below ERROR, emitted with fields after an Error call
\* on the same Log
C10_Witness ==
    /\ Emitted /\ HasEntry
    /\ lastOp.op \in NonErrorOps
    /\ logs[lastOp.l].payload.Stacktrace # ""
    /\ DOMAIN acc[lastOp.l] # {}

\* the last With call that returned Log l
ReturnedByWith(l) == \E n \in DOMAIN withLog : withLog[n].result = l

LastWithOf(l) ==
    withLog[CHOOSE n \in DOMAIN withLog :
                /\ withLog[n].result = l
                /\ \A m \in DOMAIN withLog : m > n => withLog[m].result # l]

\* an entry was emitted through the Log that With returned when it was called
\* on a Log that already had fields
EmittedAfterWith ==
    /\ Emitted /\ HasEntry
    /\ ReturnedByWith(lastOp.l)
    /\ DOMAIN LastWithOf(lastOp.l).before # {}

C12_LocationNamesCaller ==
    (lastOp.op = "Error" /\ HasEntry /\ HasReportLocation(LastEntry)) =>
        LastEntry.context.reportLocation
          = [filePath |-> lastArg.site.file,
             functionName |-> lastArg.site.fn,
             lineNumber |-> lastArg.site.line]

----------------------------------------------------------------------------
(* The variant of main.go: New(service, version), Set, and emit methods    *)
(* that take the data of the entry.  It has no package configuration: the  *)
(* level is read from LOG_LEVEL at every call.  The variables logLevel,    *)
(* service, version, withLog, acc and passed are not used by it.           *)

\* var LogLevelValue: <<value, ok>> for a lookup; a missing key gives 0
Main_LogLevelValue(name) ==
    IF name = "DEBUG" THEN <<0, TRUE>>
    ELSE IF name = "INFO" THEN <<1, TRUE>>
    ELSE IF name = "WARN" THEN <<2, TRUE>>
    ELSE IF name = "ERROR" THEN <<3, TRUE>>
    ELSE <<0, FALSE>>

\* var LogLevelName
Main_LogLevelName == <<"DEBUG", "INFO", "WARN", "ERROR">>

\* type Payload of main.go: it has a Data field of its own
Main_Payload(sev, time, msg, data, sc, ctx, stack) ==
    [Severity |-> sev, EventTime |-> time, Caller |-> "", Message |-> msg,
     Data |-> data, ServiceContext |-> sc, Context |-> ctx, Stacktrace |-> stack]

\* type Log of main.go
Main_Log(p, w) == [Payload |-> p, writer |-> w]

\* the tags of ServiceContext have no omitempty
Main_MarshalServiceContext(sc) == [service |-> sc.Service, version |-> sc.Version]

Main_Marshal(p) ==
    [severity |-> p.Severity, eventTime |-> p.EventTime, message |-> p.Message]
    @@ Opt(p.Caller # "", [caller |-> p.Caller])
    @@ Opt(DOMAIN p.Data # {}, [data |-> MarshalMap(p.Data)])
    @@ Opt(p.ServiceContext # <<>>,
           [serviceContext |-> Main_MarshalServiceContext(p.ServiceContext[1])])
    @@ Opt(p.Context # <<>>, [context |-> MarshalContext(p.Context[1])])
    @@ Opt(p.Stacktrace # "", [stacktrace |-> p.Stacktrace])

\* the world of main.go: the Log objects, the writers, and whether the call
\* panicked
Main_World(lg, snk, pn) == [logs |-> lg, sink |-> snk, panic |-> pn]

\* func New(service, version string) *Log
Main_NewLog(svc, ver) ==
    Main_Log(Main_Payload("", "", <<>>, EmptyFields, <<ServiceContext(svc, ver)>>,
                          <<>>, ""),
             "stdout")

\* func (l *Log) SetWriter(w io.Writer)
Main_SetWriterOp(w, l, wr) ==
    Main_World([w.logs EXCEPT ![l].writer = wr], w.sink, FALSE)

\* func (l *Log) Set(key, val string)
Main_SetOp(w, l, key, val) ==
    LET ctx == IF w.logs[l].Payload.Context = <<>>
               THEN Context(EmptyFields, <<>>)
               ELSE w.logs[l].Payload.Context[1]
        data == [k \in DOMAIN ctx.Data \cup {key} |->
                    IF k = key THEN val ELSE ctx.Data[k]]
    IN  Main_World([w.logs EXCEPT ![l].Payload.Context = <<[ctx EXCEPT !.Data = data]>>],
                   w.sink, FALSE)

\* func (l *Log) log(severity, message string, data Fields)
Main_log(w, l, severity, message, data, now) ==
    LET old == w.logs[l].Payload
        p == Main_Payload(severity, now, message, data, old.ServiceContext,
                          old.Context, old.Stacktrace)
    IN  Main_World([w.logs EXCEPT ![l].Payload = [p EXCEPT !.Data = EmptyFields]],
                   Fprintln(w.sink, w.logs[l].writer, JsonChunk(Main_Marshal(p))),
                   FALSE)

\* func isValidLogLevel(logLevel int) bool: the error fmt.Errorf makes is
\* dropped, and curLogLev is 0 when LOG_LEVEL is no key of LogLevelValue
Main_isValidLogLevel(lvl) == Main_LogLevelValue(env.LOG_LEVEL)[1] <= lvl

\* func (l *Log) Debug(message string, data Fields)
Main_DebugOp(w, l, message, data, now) ==
    IF ~Main_isValidLogLevel(0) THEN w
    ELSE Main_log(w, l, Main_LogLevelName[0 + 1], message, data, now)

\* func (l *Log) Metric(message string)
Main_MetricOp(w, l, message, now) ==
    IF ~Main_isValidLogLevel(1) THEN w
    ELSE Main_log(w, l, Main_LogLevelName[1 + 1], message, EmptyFields, now)

\* func (l *Log) Info(message string, data Fields)
Main_InfoOp(w, l, message, data, now) ==
    IF ~Main_isValidLogLevel(1) THEN w
    ELSE Main_log(w, l, Main_LogLevelName[1 + 1], message, data, now)

\* func (l *Log) Warn(message string, data Fields)
Main_WarnOp(w, l, message, data, now) ==
    IF ~Main_isValidLogLevel(2) THEN w
    ELSE Main_log(w, l, Main_LogLevelName[2 + 1], message, data, now)

\* func (l *Log) Error(message string, data Fields): l.Payload.Context.Data
\* is read without a nil check, a nil pointer dereference when Set was never
\* called
Main_ErrorOp(w, l, message, data, now, stack, caller) ==
    IF w.logs[l].Payload.Context = <<>>
    THEN Main_World(w.logs, w.sink, TRUE)
    ELSE LET old == w.logs[l].Payload
             p == Main_Payload("", "", <<>>, EmptyFields, old.ServiceContext,
                     <<Context(old.Context[1].Data,
                               <<ReportLocation(caller.file, "unknown", caller.line)>>)>>,
                     stack)
         IN  Main_log(Main_World([w.logs EXCEPT ![l].Payload = p], w.sink, FALSE),
                      l, Main_LogLevelName[3 + 1], message, data, now)

\* the services, the versions and the data the client passes
Main_Services == {"svc"}
Main_Versions == {"1.0"}
Main_DataInputs == {f \in FieldMaps : f = EmptyFields \/ f = [a |-> "1"]}

Main_Unused == <<logLevel, service, version, withLog, acc, passed>>

Main_Init ==
    /\ env \in Envs
    /\ logLevel = 0
    /\ service = ""
    /\ version = ""
    /\ logs = <<>>
    /\ sink = EmptySink
    /\ lastOp = Call("init", 0, -1, <<>>)
    /\ withLog = <<>>
    /\ acc = <<>>
    /\ lastArg = NoArg
    /\ panicked = FALSE
    /\ gor = NoCalls
    /\ steps = 0
    /\ passed = 0

\* what every call of main.go does around the operation itself; nothing runs
\* once the process has panicked
Main_Call(op, l, sev, msg, w, site) ==
    /\ ~panicked
    /\ Step
    /\ logs' = w.logs
    /\ sink' = w.sink
    /\ panicked' = w.panic
    /\ lastOp' = Call(op, l, sev, msg)
    /\ lastArg' = Arg(site, "")
    /\ UNCHANGED <<env, gor, Main_Unused>>

Main_Now == Main_World(logs, sink, FALSE)

Main_New ==
    /\ ~panicked
    /\ Step
    /\ \E svc \in Main_Services, ver \in Main_Versions :
            logs' = Append(logs, Main_NewLog(svc, ver))
    /\ lastOp' = Call("New", Len(logs) + 1, -1, <<>>)
    /\ lastArg' = NoArg
    /\ UNCHANGED <<env, gor, sink, panicked, Main_Unused>>

Main_SetWriter ==
    \E l \in LogIds, wr \in Writers :
        Main_Call("SetWriter", l, -1, <<>>, Main_SetWriterOp(Main_Now, l, wr), NoFrame)

Main_Set ==
    \E l \in LogIds, key \in Keys, val \in Vals :
        Main_Call("Set", l, -1, <<>>, Main_SetOp(Main_Now, l, key, val), NoFrame)

Main_Debug ==
    \E l \in LogIds, m \in PlainMessages, d \in Main_DataInputs, now \in Times :
        Main_Call("Debug", l, 0, m, Main_DebugOp(Main_Now, l, m, d, now), NoFrame)

Main_Metric ==
    \E l \in LogIds, m \in PlainMessages, now \in Times :
        Main_Call("Metric", l, 1, m, Main_MetricOp(Main_Now, l, m, now), NoFrame)

Main_Info ==
    \E l \in LogIds, m \in PlainMessages, d \in Main_DataInputs, now \in Times :
        Main_Call("Info", l, 1, m, Main_InfoOp(Main_Now, l, m, d, now), NoFrame)

Main_Warn ==
    \E l \in LogIds, m \in PlainMessages, d \in Main_DataInputs, now \in Times :
        Main_Call("Warn", l, 2, m, Main_WarnOp(Main_Now, l, m, d, now), NoFrame)

Main_Error ==
    \E l \in LogIds, m \in PlainMessages, d \in Main_DataInputs, now \in Times,
       st \in Stacks, site \in CallSites :
        Main_Call("Error", l, 3, m,
                  Main_ErrorOp(Main_Now, l, m, d, now, st, site), site)

Main_Next ==
    \/ Main_New
    \/ Main_SetWriter
    \/ Main_Set
    \/ Main_Debug
    \/ Main_Metric
    \/ Main_Info
    \/ Main_Warn
    \/ Main_Error

SpecMain == Main_Init /\ [][Main_Next]_vars

\* C14: no emit call panics: whatever the state of the Log, and for Error on
\* a Log that never received a context value in particular, the call returns.
C14_NoEmitPanics == lastOp.op \in EmitOps => ~panicked

\* C15: an entry written while SERVICE and VERSION are both empty has no
\* "serviceContext" key at all.
C15_NoServiceContextWhenUnset ==
    (Emitted /\ HasEntry /\ env.SERVICE = "" /\ env.VERSION = "")
        => "serviceContext" \notin DOMAIN LastEntry

LevelNames == {"DEBUG", "INFO", "WARN", "ERROR"}

\* the writer of the receiver of the call this step makes, before and after
WriterBefore == sink[logs[lastOp'.l].writer]
WriterAfter == sink'[logs[lastOp'.l].writer]

\* this step appended one JSON object and one newline to the receiver's writer
AppendsOneEntry ==
    /\ Len(WriterAfter) = Len(WriterBefore) + 2
    /\ SubSeq(WriterAfter, 1, Len(WriterBefore)) = WriterBefore
    /\ WriterAfter[Len(WriterAfter)] = Newline
    /\ WriterAfter[Len(WriterAfter) - 1].json # <<>>

\* C16: when LOG_LEVEL is missing or is no level name, the threshold is INFO:
\* a Debug or Debugf call writes nothing, and an Info, Infof, Metric, Warn,
\* Warnf, Error or Errorf call appends one entry of its severity.
C16_DefaultsToInfo ==
    [][(env.LOG_LEVEL \notin LevelNames /\ lastOp'.op \in EmitOps) =>
          /\ logLevel = info
          /\ IF lastOp'.op \in {"Debug", "Debugf"}
             THEN sink' = sink
             ELSE /\ AppendsOneEntry
                  /\ WriterAfter[Len(WriterAfter) - 1].json[1].severity
                        = String(lastOp'.sev)]_vars

\* C16 witness: under a LOG_LEVEL that is no level name, a Debug call was made
\* after two calls that were emitted
C16_Witness ==
    /\ env.LOG_LEVEL \notin LevelNames
    /\ lastOp.op \in {"Debug", "Debugf"}
    /\ passed >= 2

\* C17: in main.go, when LOG_LEVEL is not set the level is INFO: a Debug call
\* writes nothing to any writer, and an Info, Warn or Error call appends one
\* entry.
C17_MainDefaultsToInfo ==
    [][(env.LOG_LEVEL = "" /\ lastOp'.op \in {"Debug", "Info", "Warn", "Error"}) =>
          IF lastOp'.op = "Debug" THEN sink' = sink ELSE AppendsOneEntry]_vars

\* C18: a Metric call at or above the threshold appends one entry with
\* severity INFO and the message passed, and that entry carries no context
\* data, whatever context the Log holds.
C18_MetricHasNoData ==
    (lastOp.op = "Metric" /\ Emitted) =>
        /\ HasEntry
        /\ LastEntry.severity = "INFO"
        /\ LastEntry.message = lastOp.msg
        /\ ~HasData(LastEntry)

\* the JSON objects a writer holds
EntriesOf(w) == {sink[w][i].json[1] : i \in {j \in DOMAIN sink[w] : sink[w][j].json # <<>>}}

\* the serviceContext object of the service and version the process was
\* configured with
ConfiguredIdentity ==
    [k \in {n \in {"service"} : env.SERVICE # ""} \cup
           {n \in {"version"} : env.VERSION # ""} |->
        IF k = "service" THEN env.SERVICE ELSE env.VERSION]

\* C19: every entry in every writer, emitted through a Log made by New or
\* returned by With, after any calls of With, SetWriter and the emit methods,
\* carries the configured service name and version; and every Log holds them.
C19_IdentityFixed ==
    /\ \A w \in Writers : \A e \in EntriesOf(w) :
          /\ "serviceContext" \in DOMAIN e
          /\ e.serviceContext = ConfiguredIdentity
    /\ \A l \in LogIds :
          logs[l].payload.ServiceContext = <<ServiceContext(env.SERVICE, env.VERSION)>>

\* C19 witness: with a service name configured, an Error entry was written to
\* the buffer through a Log returned by With
C19_Witness ==
    /\ env.SERVICE # ""
    /\ lastOp.op \in ErrorOps
    /\ HasEntry
    /\ ReturnedByWith(lastOp.l)
    /\ logs[lastOp.l].writer = "buf"

\* what this step appended to the writer of the receiver
Appended == SubSeq(WriterAfter, Len(WriterBefore) + 1, Len(WriterAfter))

\* C20: a SetWriter(w) step sets the writer of its receiver to w and changes
\* nothing else: no payload (context, service identity), no other Log, no
\* writer's content.  An emit step after it writes to the writer that is set
\* and to no other writer, and what it writes is the marshalled payload of the
\* Log, whichever writer is set.
C20_SetWriterOnlyRedirects ==
    [][/\ lastOp'.op = "SetWriter" =>
            /\ sink' = sink
            /\ DOMAIN logs' = DOMAIN logs
            /\ logs'[lastOp'.l].writer = lastArg'.writer
            /\ logs'[lastOp'.l].payload = logs[lastOp'.l].payload
            /\ \A l \in LogIds : l # lastOp'.l => logs'[l] = logs[l]
       /\ lastOp'.op \in EmitOps =>
            /\ logs'[lastOp'.l].writer = logs[lastOp'.l].writer
            /\ \A w \in Writers : w # logs[lastOp'.l].writer => sink'[w] = sink[w]
            /\ SubSeq(WriterAfter, 1, Len(WriterBefore)) = WriterBefore
            /\ Appended \in {<<>>, <<JsonChunk(Marshal(logs'[lastOp'.l].payload)), Newline>>}
      ]_vars

\* C20 witness: one Log wrote an entry to the standard output, was redirected
\* to the buffer, and wrote an entry there
C20_Witness ==
    /\ Len(logs) = 1
    /\ Emitted
    /\ HasEntry
    /\ logs[1].writer = "buf"
    /\ ObjectsIn("stdout") = 1
    /\ ObjectsIn("buf") = 1

----------------------------------------------------------------------------
(* logger.go called from two goroutines.  The package has no lock, so the  *)
(* statements of two calls interleave.  A step is one statement that reads *)
(* or writes a Log: one l.set of the loop of With, the assignment of       *)
(* l.payload in Error, the assignment of l.payload in log, and the marshal *)
(* and write of log.  The level check reads logLevel only, which nothing   *)
(* writes after init(), and is taken together with the statement after it. *)
(* Before the goroutines start, the client has made a Log with New and     *)
(* derived one Log for each goroutine from it with With.                   *)

\* the fields of the two With calls that derive the goroutines' Logs
Conc_Derive == <<[a |-> "1"], [b |-> "1"]>>

\* the message a goroutine passes
Conc_Message == <<<<"one">>, <<"two">>>>

\* root := New(); d1 := root.With(..); d2 := root.With(..)
Conc_Derived1(e) == WithOp(World(<<NewLog>>, initSink(e)), 1, Conc_Derive[1])
Conc_Derived2(e) == WithOp(Conc_Derived1(e).world, 1, Conc_Derive[2])

Conc_Init ==
    /\ env \in Envs
    /\ logLevel = initLevel(env)
    /\ service = env.SERVICE
    /\ version = env.VERSION
    /\ logs = Conc_Derived2(env).world.logs
    /\ sink = Conc_Derived2(env).world.sink
    /\ lastOp = Call("With", 1, -1, <<>>)
    /\ withLog = <<>>
    /\ acc = <<Merge(Conc_Derive[1], Conc_Derive[2])>>
    /\ lastArg = NoArg
    /\ panicked = FALSE
    /\ gor = [g \in Goroutines |->
                Idle(IF g = 1 THEN Conc_Derived1(env).ret ELSE Conc_Derived2(env).ret)]
    /\ steps = 0
    /\ passed = 0

\* the first statement of log: l.payload = &Payload{...}
Conc_logAssign(lg, l, severity, message, now) ==
    [lg EXCEPT ![l].payload =
        Payload(severity, now, message, lg[l].payload.ServiceContext,
                lg[l].payload.Context, lg[l].payload.Stacktrace)]

\* the rest of log: json.Marshal(l.payload) and fmt.Fprintln(l.writer, ..)
Conc_logWrite(lg, snk, l) ==
    Fprintln(snk, lg[l].writer, JsonChunk(Marshal(lg[l].payload)))

\* another goroutine is inside the loop of With on the same Log
Conc_Racing(g) ==
    \E g2 \in Goroutines \ {g} : gor[g2].pc = "with" /\ gor[g2].h = gor[g].h

Conc_Frame == UNCHANGED <<Config, withLog, acc, lastArg>>

\* a goroutine calls With on the Log it holds, with at least one field
Conc_WithCall ==
    \E g \in Goroutines, fields \in FieldInputs :
        /\ ~panicked
        /\ Step
        /\ gor[g].pc = "idle"
        /\ DOMAIN fields # {}
        /\ gor' = [gor EXCEPT ![g] = [@ EXCEPT !.pc = "with", !.op = "With",
                                                !.fields = fields,
                                                !.todo = DOMAIN fields]]
        /\ UNCHANGED <<logs, sink, lastOp, panicked, passed>>
        /\ Conc_Frame

\* one l.set(k, v) of the loop, in the order range gives the keys; With
\* returns its receiver after the last.  A map write that meets another
\* goroutine's map write either goes through or ends the process ("fatal
\* error: concurrent map writes")
Conc_WithSet ==
    \E g \in Goroutines :
        /\ ~panicked
        /\ Step
        /\ gor[g].pc = "with"
        /\ \E k \in gor[g].todo :
             /\ \/ /\ logs' = set(logs, gor[g].h, k, gor[g].fields[k])
                   /\ panicked' = FALSE
                \/ /\ Conc_Racing(g)
                   /\ logs' = logs
                   /\ panicked' = TRUE
             /\ gor' = [gor EXCEPT ![g] =
                          IF gor[g].todo = {k}
                          THEN [Idle(WithOp(World(logs, sink), gor[g].h,
                                            gor[g].fields).ret)
                                  EXCEPT !.calls = gor[g].calls]
                          ELSE [@ EXCEPT !.todo = @ \ {k}]]
        /\ UNCHANGED <<sink, lastOp, passed>>
        /\ Conc_Frame

\* a goroutine calls Debug, Info or Warn: below the threshold the call
\* returns, otherwise log assigns l.payload
Conc_EmitCall ==
    \E g \in Goroutines, s \in {debug, info, warn}, now \in Times :
        /\ ~panicked
        /\ Step
        /\ gor[g].pc = "idle"
        /\ IF ~isValidLogLevel(s)
           THEN UNCHANGED <<logs, gor>>
           ELSE /\ logs' = Conc_logAssign(logs, gor[g].h, logLevelName[s + 1],
                                          Conc_Message[g], now)
                /\ gor' = [gor EXCEPT ![g] =
                             [@ EXCEPT !.pc = "log",
                                       !.op = <<"Debug", "Info", "Warn">>[s + 1],
                                       !.sev = s, !.msg = Conc_Message[g],
                                       !.calls = @ + 1]]
        /\ UNCHANGED <<sink, lastOp, panicked, passed>>
        /\ Conc_Frame

\* a goroutine calls Error: the assignment of l.payload in Error
Conc_ErrorCall ==
    \E g \in Goroutines, st \in Stacks, site \in CallSites :
        /\ ~panicked
        /\ Step
        /\ gor[g].pc = "idle"
        /\ logs' = [logs EXCEPT ![gor[g].h].payload = ErrorPayload(@, st, site)]
        /\ gor' = [gor EXCEPT ![g] =
                     [@ EXCEPT !.pc = "error", !.op = "Error", !.sev = error,
                               !.msg = Conc_Message[g], !.calls = @ + 1]]
        /\ UNCHANGED <<sink, lastOp, panicked, passed>>
        /\ Conc_Frame

\* Error goes on to log, which assigns l.payload
Conc_LogAssign ==
    \E g \in Goroutines, now \in Times :
        /\ ~panicked
        /\ Step
        /\ gor[g].pc = "error"
        /\ logs' = Conc_logAssign(logs, gor[g].h, logLevelName[error + 1],
                                  gor[g].msg, now)
        /\ gor' = [gor EXCEPT ![g].pc = "log"]
        /\ UNCHANGED <<sink, lastOp, panicked, passed>>
        /\ Conc_Frame

\* log marshals l.payload and writes the line; the call returns
Conc_LogWrite ==
    \E g \in Goroutines :
        /\ ~panicked
        /\ Step
        /\ gor[g].pc = "log"
        /\ sink' = Conc_logWrite(logs, sink, gor[g].h)
        /\ lastOp' = Call(gor[g].op, gor[g].h, gor[g].sev, gor[g].msg)
        /\ passed' = passed + 1
        /\ gor' = [gor EXCEPT ![g] = [Idle(gor[g].h) EXCEPT !.calls = gor[g].calls]]
        /\ UNCHANGED <<logs, panicked>>
        /\ Conc_Frame

Conc_Next ==
    \/ Conc_WithCall
    \/ Conc_WithSet
    \/ Conc_EmitCall
    \/ Conc_ErrorCall
    \/ Conc_LogAssign
    \/ Conc_LogWrite

SpecConc == Conc_Init /\ [][Conc_Next]_vars

\* C21: With never mutates shared state: two goroutines that are inside With
\* at the same time, each on the Log derived for it, write to the context maps
\* of different Logs, and no With call ends the process.
C21_WithWritesOwnMap ==
    /\ \A g1, g2 \in Goroutines :
          (g1 # g2 /\ gor[g1].pc = "with" /\ gor[g2].pc = "with")
              => gor[g1].h # gor[g2].h
    /\ ~panicked

\* the entries, in all the writers, that carry the message m
EntriesWith(m) ==
    Cardinality(UNION {{<<w, i>> : i \in {j \in DOMAIN sink[w] :
                                            /\ sink[w][j].json # <<>>
                                            /\ sink[w][j].json[1].message = m}} :
                       w \in Writers})

\* C27: when two goroutines emit through the same Log, the line a call writes
\* carries the severity and the message of that call, and a message is never
\* written more often than it was passed.
C27_EachLineItsOwn ==
    /\ lastOp.op \in EmitOps =>
          /\ HasEntry
          /\ LastEntry.severity = String(lastOp.sev)
          /\ LastEntry.message = lastOp.msg
    /\ \A g \in Goroutines : EntriesWith(Conc_Message[g]) <= gor[g].calls

\* the rank of a key in the lexicographic order of Go strings
Rank(k) == IF k = "a" THEN 1 ELSE 2

\* the keys of a marshalled map, in the order they are written
WrittenKeys(pairs) == [i \in DOMAIN pairs |-> pairs[i][1]]

C24_FilteredCallChangesNoLog ==
    [][(lastOp'.op \in EmitOps /\ lastOp'.sev < logLevel) =>
          /\ logs' = logs
          /\ <<logLevel, service, version>>' = <<logLevel, service, version>>]_vars

\* C24 witness: under the threshold ERROR, a Warn call was filtered on a Log
\* that holds context data and has written an entry before
C24_Witness ==
    /\ lastOp.op \in {"Warn", "Warnf"}
    /\ logLevel = error
    /\ passed >= 1
    /\ DOMAIN CtxData(lastOp.l) # {}
    /\ logs[lastOp.l].payload.Severity = "ERROR"

\* C25: the reportLocation of an Errorf entry is the place in the client's
\* code that called Errorf, as Error called at that place would report it.
C25_ErrorfNamesItsCaller ==
    (lastOp.op = "Errorf" /\ HasEntry /\ HasReportLocation(LastEntry)) =>
        /\ LastEntry.context.reportLocation.filePath = lastArg.site.file
        /\ LastEntry.context.reportLocation.lineNumber = lastArg.site.line

\* the text, other than the newline that ends a line, a writer holds
TextIn(w) == {sink[w][i].text : i \in {j \in DOMAIN sink[w] :
                                        sink[w][j].json = <<>> /\ sink[w][j] # Newline}}

\* C26: no diagnostic text is in a stream that receives the entries of a Log,
\* the standard output of a Log made by New included.
C26_NoDiagnosticInSink ==
    \A l \in LogIds : TextIn(logs[l].writer) = {}

----------------------------------------------------------------------------
(* The variant of unnamed/part_001: Set writes the data of the payload,    *)
(* which has no context data, and log unsets it once the entry is written. *)
(* As in main.go the level is read from LOG_LEVEL at every call.  Here acc *)
(* is, per Log, the values given to Set since the Log last wrote an entry. *)

\* type Context of part_001: the report location only
Set_Context(rl) == [ReportLocation |-> rl]

\* type Payload of part_001
Set_Payload(sev, time, msg, data, sc, ctx, stack) ==
    [Severity |-> sev, EventTime |-> time, Caller |-> "", Message |-> msg,
     Data |-> data, ServiceContext |-> sc, Context |-> ctx, Stacktrace |-> stack]

Set_MarshalContext(c) ==
    Opt(c.ReportLocation # <<>>,
        [reportLocation |-> MarshalReportLocation(c.ReportLocation[1])])

Set_Marshal(p) ==
    [severity |-> p.Severity, eventTime |-> p.EventTime, message |-> p.Message]
    @@ Opt(p.Caller # "", [caller |-> p.Caller])
    @@ Opt(DOMAIN p.Data # {}, [data |-> MarshalMap(p.Data)])
    @@ Opt(p.ServiceContext # <<>>,
           [serviceContext |-> Main_MarshalServiceContext(p.ServiceContext[1])])
    @@ Opt(p.Context # <<>>, [context |-> Set_MarshalContext(p.Context[1])])
    @@ Opt(p.Stacktrace # "", [stacktrace |-> p.Stacktrace])

\* func New(service, version string) *Log
Set_NewLog(svc, ver) ==
    Main_Log(Set_Payload("", "", <<>>, EmptyFields, <<ServiceContext(svc, ver)>>,
                         <<>>, ""),
             "stdout")

\* func (l *Log) SetWriter(w io.Writer)
Set_SetWriterOp(w, l, wr) == World([w.logs EXCEPT ![l].writer = wr], w.sink)

\* func (l *Log) Set(key, val string)
Set_SetOp(w, l, key, val) ==
    World([w.logs EXCEPT ![l].Payload.Data =
              [k \in DOMAIN @ \cup {key} |-> IF k = key THEN val ELSE @[k]]],
          w.sink)

\* log, if it left the data in the payload
Set_log_KeepData(w, l, severity, message, now) ==
    LET old == w.logs[l].Payload
        p == Set_Payload(severity, now, message, old.Data, old.ServiceContext,
                         old.Context, old.Stacktrace)
    IN  World([w.logs EXCEPT ![l].Payload = p],
              Fprintln(w.sink, w.logs[l].writer, JsonChunk(Set_Marshal(p))))

\* func (l *Log) log(severity, message string)
Set_log(w, l, severity, message, now) ==
    LET old == w.logs[l].Payload
        p == Set_Payload(severity, now, message, old.Data, old.ServiceContext,
                         old.Context, old.Stacktrace)
    IN  World([w.logs EXCEPT ![l].Payload = [p EXCEPT !.Data = EmptyFields]],
              Fprintln(w.sink, w.logs[l].writer, JsonChunk(Set_Marshal(p))))

\* func isValidLogLevel(logLevel int) bool
Set_isValidLogLevel(lvl) == Main_LogLevelValue(env.LOG_LEVEL)[1] <= lvl

\* func (l *Log) Debug(message string)
Set_DebugOp(w, l, message, now) ==
    IF ~Set_isValidLogLevel(0) THEN w
    ELSE Set_log(w, l, Main_LogLevelName[0 + 1], message, now)

\* func (l *Log) Info(message string)
Set_InfoOp(w, l, message, now) ==
    IF ~Set_isValidLogLevel(1) THEN w
    ELSE Set_log(w, l, Main_LogLevelName[1 + 1], message, now)

\* func (l *Log) Warn(message string)
Set_WarnOp(w, l, message, now) ==
    IF ~Set_isValidLogLevel(2) THEN w
    ELSE Set_log(w, l, Main_LogLevelName[2 + 1], message, now)

\* func (l *Log) Error(message string): the payload it stores has no data
Set_ErrorOp(w, l, message, now, stack, caller) ==
    LET old == w.logs[l].Payload
        p == Set_Payload("", "", <<>>, EmptyFields, old.ServiceContext,
                <<Set_Context(<<ReportLocation(caller.file, "unknown", caller.line)>>)>>,
                stack)
    IN  Set_log(World([w.logs EXCEPT ![l].Payload = p], w.sink),
                l, Main_LogLevelName[3 + 1], message, now)

Set_Unused == <<logLevel, service, version, withLog, panicked, gor, passed>>

Set_Init ==
    /\ env \in Envs
    /\ logLevel = 0
    /\ service = ""
    /\ version = ""
    /\ logs = <<>>
    /\ sink = EmptySink
    /\ lastOp = Call("init", 0, -1, <<>>)
    /\ withLog = <<>>
    /\ acc = <<>>
    /\ lastArg = NoArg
    /\ panicked = FALSE
    /\ gor = NoCalls
    /\ steps = 0
    /\ passed = 0

Set_New ==
    /\ Step
    /\ \E svc \in Main_Services, ver \in Main_Versions :
            logs' = Append(logs, Set_NewLog(svc, ver))
    /\ acc' = Append(acc, NoFields)
    /\ lastOp' = Call("New", Len(logs) + 1, -1, <<>>)
    /\ lastArg' = NoArg
    /\ UNCHANGED <<env, sink, Set_Unused>>

Set_SetWriter ==
    \E l \in LogIds, wr \in Writers :
        /\ Step
        /\ logs' = Set_SetWriterOp(World(logs, sink), l, wr).logs
        /\ sink' = Set_SetWriterOp(World(logs, sink), l, wr).sink
        /\ lastOp' = Call("SetWriter", l, -1, <<>>)
        /\ lastArg' = Arg(NoFrame, wr)
        /\ UNCHANGED <<env, acc, Set_Unused>>

Set_Set ==
    \E l \in LogIds, key \in Keys, val \in Vals :
        /\ Step
        /\ logs' = Set_SetOp(World(logs, sink), l, key, val).logs
        /\ sink' = Set_SetOp(World(logs, sink), l, key, val).sink
        /\ acc' = [acc EXCEPT ![l] = Merge(@, [k \in {key} |-> val])]
        /\ lastOp' = Call("Set", l, -1, <<>>)
        /\ lastArg' = NoArg
        /\ UNCHANGED <<env, Set_Unused>>

\* what every emit call of part_001 does around the operation itself
Set_Emit(op, l, sev, msg, w, site) ==
    /\ Step
    /\ logs' = w.logs
    /\ sink' = w.sink
    /\ acc' = IF w.sink = sink THEN acc ELSE [acc EXCEPT ![l] = NoFields]
    /\ lastOp' = Call(op, l, sev, msg)
    /\ lastArg' = Arg(site, "")
    /\ UNCHANGED <<env, Set_Unused>>

Set_Debug ==
    \E l \in LogIds, m \in PlainMessages, now \in Times :
        Set_Emit("Debug", l, 0, m, Set_DebugOp(World(logs, sink), l, m, now), NoFrame)

Set_Info ==
    \E l \in LogIds, m \in PlainMessages, now \in Times :
        Set_Emit("Info", l, 1, m, Set_InfoOp(World(logs, sink), l, m, now), NoFrame)

Set_Warn ==
    \E l \in LogIds, m \in PlainMessages, now \in Times :
        Set_Emit("Warn", l, 2, m, Set_WarnOp(World(logs, sink), l, m, now), NoFrame)

Set_Error ==
    \E l \in LogIds, m \in PlainMessages, now \in Times, st \in Stacks,
       site \in CallSites :
        Set_Emit("Error", l, 3, m,
                 Set_ErrorOp(World(logs, sink), l, m, now, st, site), site)

Set_Next ==
    \/ Set_New
    \/ Set_SetWriter
    \/ Set_Set
    \/ Set_Debug
    \/ Set_Info
    \/ Set_Warn
    \/ Set_Error

SpecSet == Set_Init /\ [][Set_Next]_vars

\* the entry this step appended
NewEntry == WriterAfter[Len(WriterAfter) - 1].json[1]

\* the top-level data of an entry, read back as a map
TopData(e) ==
    IF "data" \in DOMAIN e
    THEN [k \in {e.data[i][1] : i \in DOMAIN e.data} |->
             e.data[CHOOSE i \in DOMAIN e.data : e.data[i][1] = k][2]]
    ELSE EmptyFields

\* C28: in part_001 an entry carries no value but those given to Set since the
\* Log last wrote an entry, so a value is in one entry at most; an entry
\* written with no Set call since the entry before has no data key; and the
\* data of the Log is unset once an entry is written.
C28_DataUnsetAfterEntry ==
    [][(lastOp'.op \in EmitOps /\ AppendsOneEntry) =>
          /\ \A k \in DOMAIN TopData(NewEntry) :
                /\ k \in DOMAIN acc[lastOp'.l]
                /\ TopData(NewEntry)[k] = acc[lastOp'.l][k]
          /\ acc[lastOp'.l] = NoFields => "data" \notin DOMAIN NewEntry
          /\ logs'[lastOp'.l].Payload.Data = EmptyFields]_vars

\* C28 witness: a Log wrote an entry with data, and then, with no Set call in
\* between, an entry without a data key
C28_Witness ==
    /\ lastOp.op \in {"Debug", "Info", "Warn"}
    /\ HasEntry
    /\ "data" \notin DOMAIN LastEntry
    /\ Len(OutOf(lastOp.l)) = 4
    /\ "data" \in DOMAIN OutOf(lastOp.l)[1].json[1]

====
